---------------------------- MODULE Spec2Model ----------------------------
(***************************************************************************)
(* Model of vmm/src/igvm/igvm_loader.rs: the IGVM directive interpreter    *)
(* (load_igvm's loop over igvm_file.directives()), the parameter-area      *)
(* registry (import_parameter and the ParameterArea / ParameterInsert      *)
(* arms) and the SEV-SNP commit pipeline (sort, group,                     *)
(* import_isolated_pages, set_sev_control_register,                        *)
(* complete_isolated_import).                                              *)
(*                                                                         *)
(* A panic (assert!, expect, panic!, todo!) ends the run with              *)
(* pc = "panic"; an Err return ends it with pc = "err" and the error's     *)
(* name in result; Ok(loaded_info) ends it with pc = "ok".                 *)
(***************************************************************************)
EXTENDS Integers, Sequences, FiniteSets, TLC

VARIABLES
    pc,               \* "start" | "interp" | "commit" | "ok" | "err" | "panic"
    result,           \* "none" | "Ok" | the Error variant returned
    vcpus,            \* cpu_manager.vcpus().len()
    cmdline,          \* the cmdline argument, as bytes
    command_line,     \* CString::new(cmdline), the bytes without the NUL
    host_data,        \* the host_data argument: NoHostData or a hex string
    host_data_contents, \* [u8; 32], the decoded host data
    mask,             \* the platform header's compatibility_mask, as its set bits
    debug_assertions, \* TRUE in a build that compiles debug_assert!
    nheaders,         \* igvm_file.directives().len()
    next_header,      \* number of directives interpreted so far
    header,           \* the directive the loop body ran last
    stream,           \* the directives the loop body ran for, in order
    parameter_areas,  \* HashMap<u32, ParameterAreaState>
    gpas,             \* Vec<GpaPages>
    loaded_info,      \* Box<IgvmLoadedInfo>
    calls,            \* the collaborator calls issued so far, in order
    gpas_grouped,     \* Vec<Vec<GpaPages>> of the commit pipeline
    group_idx,        \* next group of the import loop (1-based)
    vcpu_idx,         \* next vCPU of the register loop (1-based)
    written           \* per area: the byte a fill wrote last at each position

vars == <<pc, result, vcpus, cmdline, command_line, host_data, host_data_contents, mask,
          debug_assertions, nheaders, next_header, header, stream,
          parameter_areas, gpas, loaded_info, calls, gpas_grouped,
          group_idx, vcpu_idx, written>>

---------------------------------------------------------------------------
(* Bounds of the model.                                                    *)

\* The platform page size in bytes, scaled down from 4096.
HV_PAGE_SIZE == 32

\* The longest directive stream of a mixed image (Spec).
MaxDirectives == 2

\* The longest directive stream of a page-data image (SpecPages).
MaxPageDirectives == 3

\* The longest directive stream of a parameter image (SpecParams).
MaxParamDirectives == 3

\* The longest directive stream of a launch image (SpecLaunch).
MaxLaunchDirectives == 2

\* The longest directive stream of a command-line image (SpecCmdline).
MaxCmdlineDirectives == 3

\* The longest directive stream of a masked image (SpecMask).
MaxMaskDirectives == 2

\* The largest number of vCPUs.
MaxVcpus == 2

\* The bytes of the SnpCpuidInfo entries array, scaled down from 64 * 48.
CpuidEntriesBytes == 8

\* size_of::<SevVmsa>(), scaled down.
SevVmsaBytes == 4

---------------------------------------------------------------------------
(* Program constants.                                                      *)

PAGE_TYPE_NORMAL == 1
PAGE_TYPE_VMSA == 2
PAGE_TYPE_UNMEASURED == 4
PAGE_TYPE_SECRETS == 5
PAGE_TYPE_CPUID == 6
ISOLATED_PAGE_SIZE == 4096

\* Line 181: host_data_contents is [0u8; 32].
HOST_DATA_SIZE == 32

\* size_of::<IGVM_VHS_MEMORY_MAP_ENTRY>() is 24: u64, u64, u16, u16, u32.
MEMORY_MAP_ENTRY_TYPE_MEMORY == 0

---------------------------------------------------------------------------
(* Input domains.                                                          *)

\* Guest addresses of the directives: page aligned.
Gpas == {0, HV_PAGE_SIZE, 2 * HV_PAGE_SIZE}

ParameterAreaIndexes == {0, 1}

\* number_of_bytes of a ParameterArea: a multiple of the page size.
AreaSizes == {HV_PAGE_SIZE, 2 * HV_PAGE_SIZE}

\* byte_offset of a fill.
ByteOffsets == {0, 2, HV_PAGE_SIZE - 2}

\* The cmdline argument: "c", and "c\0c" with an embedded NUL.
Cmdlines == {<<99>>, <<99, 0, 99>>}

\* What arch::generate_ram_ranges answers.
RamRangeLists ==
    { <<>>,
      << <<0, HV_PAGE_SIZE>> >>,
      << <<0, HV_PAGE_SIZE>>, <<2 * HV_PAGE_SIZE, 3 * HV_PAGE_SIZE>> >>,
      << <<0, HV_PAGE_SIZE + 1>> >> }

\* Ok(ranges) or Err of arch::generate_ram_ranges.
RamRangeAnswers ==
    { [ok |-> TRUE, ranges |-> r] : r \in RamRangeLists }
        \cup { [ok |-> FALSE, ranges |-> <<>>] }

Zeros(n) == [i \in 1..n |-> 0]

\* The host_data argument, an Option<String>: None, or Some of a string
\* given as the sequence of its characters.
NoHostData == [some |-> FALSE]

SomeHostData(str) == [some |-> TRUE, str |-> str]

\* n repetitions of the two characters hi, lo.
HexPairs(n, hi, lo) == [i \in 1..(2 * n) |-> IF i % 2 = 1 THEN hi ELSE lo]

\* No host data; 32 bytes of 0xaF; 32 bytes of 0x10; a string of odd
\* length; one that is a byte short; one with a character that is no hex
\* digit.
HostDatas ==
    { NoHostData,
      SomeHostData(HexPairs(HOST_DATA_SIZE, "a", "F")),
      SomeHostData(HexPairs(HOST_DATA_SIZE, "1", "0")),
      SomeHostData(Tail(HexPairs(HOST_DATA_SIZE, "a", "F"))),
      SomeHostData(HexPairs(HOST_DATA_SIZE - 1, "a", "F")),
      SomeHostData(HexPairs(HOST_DATA_SIZE, "a", "g")) }

\* The platform header's compatibility mask and the masks of directives, as
\* sets of bit positions.
PlatformMasks == { {0}, {0, 1} }

DirectiveMasks == { {0}, {1}, {0, 1} }

FilledPage(b) == [i \in 1..HV_PAGE_SIZE |-> b]

\* The VMSA of a SnpVpContext directive, as bytes.
Vmsas == { [i \in 1..SevVmsaBytes |-> 7], [i \in 1..SevVmsaBytes |-> 8] }

\* The fields of a SnpIdBlock directive, as one value.
IdBlocks == {1, 2}

\* data_type and flags.unmeasured() of a PageData directive.
NormalMeasured == <<"NORMAL", FALSE>>
NormalUnmeasured == <<"NORMAL", TRUE>>
Secrets == <<"SECRETS", FALSE>>
Cpuid == <<"CPUID_DATA", FALSE>>
CpuidXf == <<"CPUID_XF", FALSE>>

PageDataOf(gs, types, datas) ==
    { [kind |-> "PageData", gpa |-> g, compatibility_mask |-> {0},
       unmeasured |-> t[2], data_type |-> t[1], data |-> d] :
        g \in gs, t \in types, d \in datas }

ParameterAreaOf(is, sizes) ==
    { [kind |-> "ParameterArea", number_of_bytes |-> n, parameter_area_index |-> i,
       initial_data |-> <<>>] : n \in sizes, i \in is }
    \cup
    { [kind |-> "ParameterArea", number_of_bytes |-> HV_PAGE_SIZE,
       parameter_area_index |-> i, initial_data |-> FilledPage(9)] : i \in is }

FillOf(k, is, offsets) ==
    { [kind |-> k, parameter_area_index |-> i, byte_offset |-> o] :
        i \in is, o \in offsets }

RequiredMemoryOf(gs) ==
    { [kind |-> "RequiredMemory", gpa |-> g, compatibility_mask |-> {0},
       number_of_bytes |-> HV_PAGE_SIZE] : g \in gs }

SnpVpContextOf(gs, vps) ==
    { [kind |-> "SnpVpContext", gpa |-> g, compatibility_mask |-> {0},
       vp_index |-> v, vmsa |-> m] : g \in gs, v \in vps, m \in Vmsas }

SnpIdBlockDirectives ==
    { [kind |-> "SnpIdBlock", compatibility_mask |-> {0}, id_block |-> b] :
        b \in IdBlocks }

ParameterInsertOf(gs, is) ==
    { [kind |-> "ParameterInsert", gpa |-> g, compatibility_mask |-> {0},
       parameter_area_index |-> i] : g \in gs, i \in is }

UnsupportedKinds ==
    {"MmioRanges", "X64VbsVpContext", "VbsMeasurement", "ErrorRange", "Other"}

\* MmioRanges and the kinds of the catch-all arm carry no compatibility mask.
UnsupportedDirectives ==
    { [kind |-> k] : k \in {"MmioRanges", "Other"} }
        \cup { [kind |-> k, compatibility_mask |-> {0}] :
                  k \in {"X64VbsVpContext", "VbsMeasurement", "ErrorRange"} }

\* The directives hs, each with every compatibility mask of masks.
WithMask(hs, masks) ==
    { [h EXCEPT !.compatibility_mask = m] : h \in hs, m \in masks }

NoHeader == [kind |-> "None"]

---------------------------------------------------------------------------
(* Helpers.                                                                *)

Max(a, b) == IF a >= b THEN a ELSE b

\* n.as_bytes() of an unsigned integer of w bytes: little endian.
RECURSIVE AsBytes(_, _)
AsBytes(n, w) ==
    IF w = 0 THEN <<>> ELSE <<n % 256>> \o AsBytes(n \div 256, w - 1)

\* CString::as_bytes_with_nul.
AsBytesWithNul(s) == Append(s, 0)

\* Vec::push.
Push(v, x) == Append(v, x)

---------------------------------------------------------------------------
(* Memory map (lines 101-129).                                             *)

\* igvm_memmap_from_ram_range: TRUE when both assert! pass.
RamRangeAligned(ram_range) ==
    /\ ram_range[1] % HV_PAGE_SIZE = 0
    /\ (ram_range[2] - ram_range[1]) % HV_PAGE_SIZE = 0

\* An entry whose page count is taken from the range's end alone.
igvm_memmap_from_ram_range_end(ram_range) ==
    [starting_gpa_page_number |-> ram_range[1] \div HV_PAGE_SIZE,
     number_of_pages |-> ram_range[2] \div HV_PAGE_SIZE,
     entry_type |-> MEMORY_MAP_ENTRY_TYPE_MEMORY,
     flags |-> 0,
     reserved |-> 0]

\* Lines 106-112.
igvm_memmap_from_ram_range(ram_range) ==
    [starting_gpa_page_number |-> ram_range[1] \div HV_PAGE_SIZE,
     number_of_pages |-> (ram_range[2] - ram_range[1]) \div HV_PAGE_SIZE,
     entry_type |-> MEMORY_MAP_ENTRY_TYPE_MEMORY,
     flags |-> 0,
     reserved |-> 0]

\* generate_memory_map's loop: one entry per range, in range order.
generate_memory_map(ram_ranges) ==
    [i \in 1..Len(ram_ranges) |-> igvm_memmap_from_ram_range(ram_ranges[i])]

\* One IGVM_VHS_MEMORY_MAP_ENTRY as bytes: u64, u64, u16, u16, u32.
EntryAsBytes(e) ==
    AsBytes(e.starting_gpa_page_number, 8) \o AsBytes(e.number_of_pages, 8)
        \o AsBytes(e.entry_type, 2) \o AsBytes(e.flags, 2) \o AsBytes(e.reserved, 4)

RECURSIVE MemoryMapAsBytes(_)
MemoryMapAsBytes(memory_map) ==
    IF memory_map = <<>> THEN <<>>
    ELSE EntryAsBytes(Head(memory_map)) \o MemoryMapAsBytes(Tail(memory_map))

---------------------------------------------------------------------------
(* Parameter-area registry (lines 93-99, 131-158).                         *)

Absent == [state |-> "Absent"]

Allocated(data, max_size) ==
    [state |-> "Allocated", data |-> data, max_size |-> max_size]

Inserted == [state |-> "Inserted"]

\* A fill that forgets the parameter's length in the bound check.
ParameterTooLargeByOffset(offset, len, max_size) == offset > max_size

\* Lines 144-147: end_of_parameter > max_size, the parameter does not fit.
ParameterTooLarge(offset, len, max_size) == offset + len > max_size

\* Lines 152-154: parameter_area.resize(end_of_parameter, 0) when it is shorter.
Resize(parameter_area, end_of_parameter) ==
    IF Len(parameter_area) < end_of_parameter
    THEN parameter_area \o Zeros(end_of_parameter - Len(parameter_area))
    ELSE parameter_area

\* A copy that ignores the offset and writes at the start of the buffer.
CopyFromSliceAtStart(parameter_area, offset, parameter) ==
    [i \in 1..Len(parameter_area) |->
        IF i <= Len(parameter) THEN parameter[i] ELSE parameter_area[i]]

\* Line 156: parameter_area[offset..end_of_parameter].copy_from_slice(parameter).
CopyFromSlice(parameter_area, offset, parameter) ==
    [i \in 1..Len(parameter_area) |->
        IF offset < i /\ i <= offset + Len(parameter)
        THEN parameter[i - offset]
        ELSE parameter_area[i]]

\* An import_parameter that treats an absent or inserted area as a no-op.
import_parameter_lenient(areas, info, parameter) ==
    LET area == areas[info.parameter_area_index]
        offset == info.byte_offset
        end_of_parameter == offset + Len(parameter)
    IN  IF area.state # "Allocated"
        THEN [outcome |-> "Ok", areas |-> areas]
        ELSE IF ParameterTooLarge(offset, Len(parameter), area.max_size)
        THEN [outcome |-> "ParameterTooLarge", areas |-> areas]
        ELSE [outcome |-> "Ok",
              areas |-> [areas EXCEPT ![info.parameter_area_index] =
                  Allocated(CopyFromSlice(Resize(area.data, end_of_parameter),
                                          offset, parameter),
                            area.max_size)]]

\* An import_parameter that always writes to the area of index 0.
import_parameter_first(areas, info, parameter) ==
    LET area == areas[0]
        offset == info.byte_offset
        end_of_parameter == offset + Len(parameter)
    IN  IF area.state # "Allocated"
        THEN [outcome |-> "panic", areas |-> areas]
        ELSE IF ParameterTooLarge(offset, Len(parameter), area.max_size)
        THEN [outcome |-> "ParameterTooLarge", areas |-> areas]
        ELSE [outcome |-> "Ok",
              areas |-> [areas EXCEPT ![0] =
                  Allocated(CopyFromSlice(Resize(area.data, end_of_parameter),
                                          offset, parameter),
                            area.max_size)]]

\* import_parameter: the outcome ("Ok", "ParameterTooLarge" or "panic") and
\* the registry afterwards.
import_parameter(areas, info, parameter) ==
    LET area == areas[info.parameter_area_index]
        offset == info.byte_offset
        end_of_parameter == offset + Len(parameter)
    IN  IF area.state # "Allocated"
        THEN [outcome |-> "panic", areas |-> areas]
        ELSE IF ParameterTooLarge(offset, Len(parameter), area.max_size)
        THEN [outcome |-> "ParameterTooLarge", areas |-> areas]
        ELSE [outcome |-> "Ok",
              areas |-> [areas EXCEPT ![info.parameter_area_index] =
                  Allocated(CopyFromSlice(Resize(area.data, end_of_parameter),
                                          offset, parameter),
                            area.max_size)]]

\* What the fills of one area asked for: the byte written last at each
\* position, -1 where no fill wrote.
RecordWrite(w, offset, parameter) ==
    [p \in 1..Max(Len(w), offset + Len(parameter)) |->
        IF offset < p /\ p <= offset + Len(parameter) THEN parameter[p - offset]
        ELSE IF p <= Len(w) THEN w[p]
        ELSE -1]

---------------------------------------------------------------------------
(* Page classification and page records (lines 85-91, 235-301).            *)

GpaPages(gpa, page_type) ==
    [gpa |-> gpa, page_type |-> page_type, page_size |-> ISOLATED_PAGE_SIZE]

SupportedPageDataType(data_type) ==
    data_type \in {"NORMAL", "SECRETS", "CPUID_DATA"}

\* A classification that ignores the unmeasured flag.
IsolatedPageTypeIgnoringFlag(data_type, unmeasured) ==
    CASE data_type = "NORMAL" -> PAGE_TYPE_NORMAL
      [] data_type = "SECRETS" -> PAGE_TYPE_SECRETS
      [] data_type = "CPUID_DATA" -> PAGE_TYPE_CPUID

\* The IsolatedPageType pushed to gpas by the match of lines 235-301.
IsolatedPageTypeOf(data_type, unmeasured) ==
    CASE data_type = "NORMAL" /\ unmeasured -> PAGE_TYPE_UNMEASURED
      [] data_type = "NORMAL" /\ ~unmeasured -> PAGE_TYPE_NORMAL
      [] data_type = "SECRETS" -> PAGE_TYPE_SECRETS
      [] data_type = "CPUID_DATA" -> PAGE_TYPE_CPUID

\* The BootPageAcceptance the match of lines 235-301 evaluates to.
AcceptanceOf(data_type, unmeasured) ==
    CASE data_type = "NORMAL" /\ unmeasured -> "ExclusiveUnmeasured"
      [] data_type = "NORMAL" /\ ~unmeasured -> "Exclusive"
      [] data_type = "SECRETS" -> "SecretsPage"
      [] data_type = "CPUID_DATA" -> "CpuidPage"

\* SnpCpuidInfo::new_zeroed() with count = 1, as bytes: count, _reserved1,
\* _reserved2, entries.
SnpCpuidInfoBytes ==
    AsBytes(1, 4) \o Zeros(4) \o Zeros(8) \o Zeros(CpuidEntriesBytes)

\* The VMSA page of line 413-419: the snapshot, then zeros to one page.
VmsaPage(vmsa) == vmsa \o Zeros(HV_PAGE_SIZE - Len(vmsa))

\* A page-data arm that forwards the directive's payload for every type.
PageDataBytesPassThrough(h) == h.data

\* Lines 303-343: the bytes handed to import_pages for a PageData directive.
PageDataBytes(h) ==
    IF h.data_type = "CPUID_DATA" THEN SnpCpuidInfoBytes ELSE h.data

---------------------------------------------------------------------------
(* Collaborator calls, as the log records them.                            *)

ImportPagesCall(page_base, page_count, acceptance, data, ok) ==
    [op |-> "import_pages", page_base |-> page_base, page_count |-> page_count,
     acceptance |-> acceptance, data |-> data, ok |-> ok]

VerifyStartupMemoryCall(page_base, page_count, ok) ==
    [op |-> "verify_startup_memory_available", page_base |-> page_base,
     page_count |-> page_count, ok |-> ok]

GenerateRamRangesCall(ranges, ok) ==
    [op |-> "generate_ram_ranges", ranges |-> ranges, ok |-> ok]

ImportIsolatedPagesCall(page_type, page_size, pfns, ok) ==
    [op |-> "import_isolated_pages", page_type |-> page_type,
     page_size |-> page_size, pfns |-> pfns, ok |-> ok]

SetSevControlRegisterCall(vcpu, value, ok) ==
    [op |-> "set_sev_control_register", vcpu |-> vcpu, value |-> value, ok |-> ok]

CompleteIsolatedImportCall(id_block, host_data_contents_, vmsa_count, ok) ==
    [op |-> "complete_isolated_import", id_block |-> id_block,
     host_data |-> host_data_contents_, vmsa_count |-> vmsa_count, ok |-> ok]

---------------------------------------------------------------------------
(* Guest memory behind the page-import sink (Loader::import_pages): a call *)
(* that succeeds writes its data at page_base, zero-padded to page_count   *)
(* pages. Guest memory starts zeroed.                                      *)

\* The bytes a call writes, over all its pages.
ImportedBytes(c) ==
    c.data \o Zeros(c.page_count * HV_PAGE_SIZE - Len(c.data))

\* The bytes a call writes to one of its pages.
ImportedPage(c, page) ==
    SubSeq(ImportedBytes(c), (page - c.page_base) * HV_PAGE_SIZE + 1,
           (page - c.page_base + 1) * HV_PAGE_SIZE)

\* The import_pages calls of a log that wrote to a page.
WritesTo(log, page) ==
    { i \in 1..Len(log) :
        /\ log[i].op = "import_pages"
        /\ log[i].ok
        /\ log[i].page_base <= page
        /\ page < log[i].page_base + log[i].page_count }

\* The content of a guest page after the calls of a log.
GuestPage(log, page) ==
    IF WritesTo(log, page) = {} THEN Zeros(HV_PAGE_SIZE)
    ELSE ImportedPage(log[CHOOSE i \in WritesTo(log, page) :
                             \A j \in WritesTo(log, page) : j <= i], page)

---------------------------------------------------------------------------
(* Initial state and the start of load_igvm (lines 173-218).               *)

DefaultLoadedInfo ==
    [gpas |-> <<>>, vmsa_gpa |-> 0, vmsa |-> Zeros(SevVmsaBytes), snp_id_block |-> 0]

Init ==
    /\ pc = "start"
    /\ result = "none"
    /\ vcpus = 0
    /\ cmdline = <<>>
    /\ command_line = <<>>
    /\ host_data = NoHostData
    /\ host_data_contents = Zeros(HOST_DATA_SIZE)
    /\ mask = {}
    /\ debug_assertions = FALSE
    /\ nheaders = 0
    /\ next_header = 0
    /\ header = NoHeader
    /\ stream = <<>>
    /\ parameter_areas = [i \in ParameterAreaIndexes |-> Absent]
    /\ gpas = <<>>
    /\ loaded_info = DefaultLoadedInfo
    /\ calls = <<>>
    /\ gpas_grouped = <<>>
    /\ group_idx = 1
    /\ vcpu_idx = 1
    /\ written = [i \in ParameterAreaIndexes |-> <<>>]

\* hex's val(): the value of a hex digit, -1 for any other character.
HexVal(c) ==
    LET lower == <<"0", "1", "2", "3", "4", "5", "6", "7", "8", "9",
                   "a", "b", "c", "d", "e", "f">>
        upper == <<"0", "1", "2", "3", "4", "5", "6", "7", "8", "9",
                   "A", "B", "C", "D", "E", "F">>
    IN  IF \E i \in 1..16 : lower[i] = c
        THEN (CHOOSE i \in 1..16 : lower[i] = c) - 1
        ELSE IF \E i \in 1..16 : upper[i] = c
        THEN (CHOOSE i \in 1..16 : upper[i] = c) - 1
        ELSE -1

\* hex::decode_to_slice(str, out) fails: odd length, a length that is not
\* twice out's, or a character that is no hex digit.
HexDecodeFails(str, out_len) ==
    \/ Len(str) % 2 # 0
    \/ Len(str) \div 2 # out_len
    \/ \E i \in 1..Len(str) : HexVal(str[i]) = -1

\* A decoding that takes the low nibble first.
HexDecodeSwapped(str, out_len) ==
    [i \in 1..out_len |-> HexVal(str[2 * i]) * 16 + HexVal(str[2 * i - 1])]

\* hex::decode_to_slice(str, out) when it succeeds: byte i is
\* val(str[2i]) << 4 | val(str[2i + 1]).
HexDecode(str, out_len) ==
    [i \in 1..out_len |-> HexVal(str[2 * i - 1]) * 16 + HexVal(str[2 * i])]

\* Lines 181-186.
DecodeHostData(hd) ==
    IF ~hd.some THEN [ok |-> TRUE, contents |-> Zeros(HOST_DATA_SIZE)]
    ELSE IF HexDecodeFails(hd.str, HOST_DATA_SIZE)
    THEN [ok |-> FALSE, contents |-> Zeros(HOST_DATA_SIZE)]
    ELSE [ok |-> TRUE, contents |-> HexDecode(hd.str, HOST_DATA_SIZE)]

\* A check that finds a NUL byte only at the end of the string.
HasNulAtEnd(s) == s # <<>> /\ s[Len(s)] = 0

\* CString::new fails on an interior NUL byte.
HasNul(s) == \E i \in 1..Len(s) : s[i] = 0

interp_vars == <<parameter_areas, gpas, loaded_info, calls, written>>
commit_vars == <<gpas_grouped, group_idx, vcpu_idx>>
input_vars ==
    <<vcpus, cmdline, command_line, host_data, host_data_contents, mask, debug_assertions,
      nheaders>>

\* Lines 173-218: the arguments are validated, the file is read and parsed,
\* the platform's mask is taken from the platform header.
StartFrom(cmdlines, lengths, host_datas, masks, builds) ==
    /\ pc = "start"
    /\ \E cl \in cmdlines, n \in 1..MaxVcpus, nh \in lengths, hd \in host_datas,
          m \in masks, b \in builds,
          early \in {"none", "Igvm", "InvalidIgvmFile", "MemoryManager"} :
          /\ cmdline' = cl
          /\ host_data' = hd
          /\ debug_assertions' = b
          /\ IF HasNul(cl)
             THEN /\ pc' = "err"
                  /\ result' = "InvalidCommandLine"
                  /\ UNCHANGED <<vcpus, command_line, host_data_contents, mask,
                                 nheaders>>
             ELSE IF ~DecodeHostData(hd).ok
             THEN /\ pc' = "err"
                  /\ result' = "FailedToDecodeHostData"
                  /\ command_line' = cl
                  /\ vcpus' = n
                  /\ UNCHANGED <<host_data_contents, mask, nheaders>>
             ELSE IF early # "none"
             THEN /\ pc' = "err"
                  /\ result' = early
                  /\ command_line' = cl
                  /\ vcpus' = n
                  /\ host_data_contents' = DecodeHostData(hd).contents
                  /\ UNCHANGED <<mask, nheaders>>
             ELSE /\ pc' = "interp"
                  /\ result' = result
                  /\ command_line' = cl
                  /\ vcpus' = n
                  /\ host_data_contents' = DecodeHostData(hd).contents
                  /\ mask' = m
                  /\ nheaders' = nh
    /\ UNCHANGED <<next_header, header, stream, interp_vars, commit_vars>>

\* A start without host data, on a platform of mask bit 0, in a debug build.
StartWith(cmdlines, lengths) ==
    StartFrom(cmdlines, lengths, {NoHostData}, {{0}}, {TRUE})

---------------------------------------------------------------------------
(* The directive loop (lines 220-507).                                     *)

InLoop == pc = "interp" /\ next_header < nheaders

\* Line 221: header.compatibility_mask().unwrap_or(mask); the directive
\* kinds without a mask have no such field.
CompatibilityMaskOf(h) ==
    IF "compatibility_mask" \in DOMAIN h THEN h.compatibility_mask ELSE mask

\* Line 221: compatibility_mask & mask == mask.
MaskCompatible(h) == mask \subseteq CompatibilityMaskOf(h)

\* Line 221: the debug_assert! passes, or the build has compiled it out.
DebugAssertMask(h) == debug_assertions => MaskCompatible(h)

\* The loop body ran to its end: on to the next directive.
Continue(h) ==
    /\ pc' = "interp"
    /\ result' = result
    /\ header' = h
    /\ next_header' = next_header + 1
    /\ stream' = Append(stream, h)

\* An error that is dropped instead of returned: the loop goes on.
FailIgnored(h, e) ==
    /\ pc' = "interp"
    /\ result' = result
    /\ header' = h
    /\ next_header' = next_header + 1
    /\ stream' = Append(stream, h)

\* The loop body returned Err(e) with the ? operator.
Fail(h, e) ==
    /\ pc' = "err"
    /\ result' = e
    /\ header' = h
    /\ next_header' = next_header
    /\ stream' = Append(stream, h)

\* The loop body panicked.
Panic(h) ==
    /\ pc' = "panic"
    /\ result' = result
    /\ header' = h
    /\ next_header' = next_header
    /\ stream' = Append(stream, h)

\* Line 221: the debug_assert! on the compatibility mask fails.
MaskMismatch(h) ==
    /\ InLoop
    /\ ~DebugAssertMask(h)
    /\ Panic(h)
    /\ UNCHANGED <<interp_vars, input_vars, commit_vars>>

\* Lines 223-344.
PageData(h) ==
    /\ InLoop
    /\ DebugAssertMask(h)
    /\ h.kind = "PageData"
    /\ IF ~(Len(h.data) = HV_PAGE_SIZE \/ h.data = <<>>)
       THEN Panic(h) /\ UNCHANGED interp_vars
       ELSE IF ~SupportedPageDataType(h.data_type)
       THEN Panic(h) /\ UNCHANGED interp_vars
       ELSE \E ok \in BOOLEAN :
            /\ gpas' = Push(gpas, GpaPages(h.gpa,
                                  IsolatedPageTypeOf(h.data_type, h.unmeasured)))
            /\ calls' = Append(calls,
                  ImportPagesCall(h.gpa \div HV_PAGE_SIZE, 1,
                      AcceptanceOf(h.data_type, h.unmeasured),
                      PageDataBytes(h), ok))
            /\ IF ok THEN Continue(h) ELSE Fail(h, "Loader")
            /\ UNCHANGED <<parameter_areas, loaded_info, written>>
    /\ UNCHANGED <<input_vars, commit_vars>>

\* A declaration that never finds the index in use.
AlreadyUsedNever(areas, h) == FALSE

\* Lines 356-364: HashMap::insert, and whether the key was already there.
DeclareArea(areas, h) ==
    [areas EXCEPT ![h.parameter_area_index] =
        Allocated(h.initial_data, h.number_of_bytes)]

AlreadyUsed(areas, h) == areas[h.parameter_area_index].state # "Absent"

\* Lines 345-368.
ParameterArea(h) ==
    /\ InLoop
    /\ DebugAssertMask(h)
    /\ h.kind = "ParameterArea"
    /\ parameter_areas' = DeclareArea(parameter_areas, h)
    /\ IF AlreadyUsed(parameter_areas, h)
       THEN Panic(h) /\ UNCHANGED written
       ELSE /\ Continue(h)
            /\ written' = [written EXCEPT ![h.parameter_area_index] = <<>>]
    /\ UNCHANGED <<gpas, loaded_info, calls, input_vars, commit_vars>>

\* The effect of one import_parameter call of the loop body.
Fill(h, parameter) ==
    LET r == import_parameter(parameter_areas, h, parameter)
    IN  /\ parameter_areas' = r.areas
        /\ CASE r.outcome = "Ok" ->
                  /\ Continue(h)
                  /\ written' = [written EXCEPT ![h.parameter_area_index] =
                                    RecordWrite(@, h.byte_offset, parameter)]
             [] r.outcome = "ParameterTooLarge" ->
                  Fail(h, "ParameterTooLarge") /\ UNCHANGED written
             [] r.outcome = "panic" ->
                  Panic(h) /\ UNCHANGED written

\* Lines 369-371.
VpCount(h) ==
    /\ InLoop
    /\ DebugAssertMask(h)
    /\ h.kind = "VpCount"
    /\ Fill(h, AsBytes(vcpus, 4))
    /\ UNCHANGED <<gpas, loaded_info, calls, input_vars, commit_vars>>

\* Lines 375-385.
MemoryMap(h) ==
    /\ InLoop
    /\ DebugAssertMask(h)
    /\ h.kind = "MemoryMap"
    /\ \E answer \in RamRangeAnswers :
          /\ calls' = Append(calls, GenerateRamRangesCall(answer.ranges, answer.ok))
          /\ IF ~answer.ok
             THEN Fail(h, "InvalidGuestMemmap") /\ UNCHANGED <<parameter_areas, written>>
             ELSE IF \E i \in 1..Len(answer.ranges) : ~RamRangeAligned(answer.ranges[i])
             THEN Panic(h) /\ UNCHANGED <<parameter_areas, written>>
             ELSE Fill(h, MemoryMapAsBytes(generate_memory_map(answer.ranges)))
    /\ UNCHANGED <<gpas, loaded_info, input_vars, commit_vars>>

\* Lines 386-388.
CommandLine(h) ==
    /\ InLoop
    /\ DebugAssertMask(h)
    /\ h.kind = "CommandLine"
    /\ Fill(h, AsBytesWithNul(command_line))
    /\ UNCHANGED <<gpas, loaded_info, calls, input_vars, commit_vars>>

\* A RequiredMemory arm that also records the range's first page.
RequiredMemoryRecorded(h) ==
    /\ InLoop
    /\ DebugAssertMask(h)
    /\ h.kind = "RequiredMemory"
    /\ \E ok \in BOOLEAN :
          /\ loaded_info' = [loaded_info EXCEPT !.gpas = Push(@, h.gpa)]
          /\ calls' = Append(calls,
                VerifyStartupMemoryCall(h.gpa \div HV_PAGE_SIZE,
                                        h.number_of_bytes \div HV_PAGE_SIZE, ok))
          /\ gpas' = Push(gpas, GpaPages(h.gpa, PAGE_TYPE_NORMAL))
          /\ IF ok THEN Continue(h) ELSE Fail(h, "Loader")
    /\ UNCHANGED <<parameter_areas, written, input_vars, commit_vars>>

\* Lines 389-404.
RequiredMemory(h) ==
    /\ InLoop
    /\ DebugAssertMask(h)
    /\ h.kind = "RequiredMemory"
    /\ \E ok \in BOOLEAN :
          /\ loaded_info' = [loaded_info EXCEPT !.gpas = Push(@, h.gpa)]
          /\ calls' = Append(calls,
                VerifyStartupMemoryCall(h.gpa \div HV_PAGE_SIZE,
                                        h.number_of_bytes \div HV_PAGE_SIZE, ok))
          /\ IF ok THEN Continue(h) ELSE Fail(h, "Loader")
    /\ UNCHANGED <<parameter_areas, gpas, written, input_vars, commit_vars>>

\* A SnpVpContext arm that passes over a directive of a non-zero VP index
\* once the output record is set, without a page record.
SnpVpContextZeroOnly(h) ==
    /\ InLoop
    /\ DebugAssertMask(h)
    /\ h.kind = "SnpVpContext"
    /\ loaded_info' = [loaded_info EXCEPT !.vmsa_gpa = h.gpa, !.vmsa = h.vmsa]
    /\ IF h.vp_index = 0
       THEN \E ok \in BOOLEAN :
            /\ calls' = Append(calls,
                  ImportPagesCall(h.gpa \div HV_PAGE_SIZE, 1, "VpContext",
                                  VmsaPage(h.vmsa), ok))
            /\ IF ok
               THEN Continue(h)
                    /\ gpas' = Push(gpas, GpaPages(h.gpa, PAGE_TYPE_VMSA))
               ELSE Fail(h, "Loader") /\ UNCHANGED gpas
       ELSE /\ Continue(h)
            /\ UNCHANGED <<gpas, calls>>
    /\ UNCHANGED <<parameter_areas, written, input_vars, commit_vars>>

\* Lines 405-430.
SnpVpContext(h) ==
    /\ InLoop
    /\ DebugAssertMask(h)
    /\ h.kind = "SnpVpContext"
    /\ loaded_info' = [loaded_info EXCEPT !.vmsa_gpa = h.gpa, !.vmsa = h.vmsa]
    /\ IF h.vp_index = 0
       THEN \E ok \in BOOLEAN :
            /\ calls' = Append(calls,
                  ImportPagesCall(h.gpa \div HV_PAGE_SIZE, 1, "VpContext",
                                  VmsaPage(h.vmsa), ok))
            /\ IF ok
               THEN Continue(h)
                    /\ gpas' = Push(gpas, GpaPages(h.gpa, PAGE_TYPE_VMSA))
               ELSE Fail(h, "Loader") /\ UNCHANGED gpas
       ELSE /\ Continue(h)
            /\ gpas' = Push(gpas, GpaPages(h.gpa, PAGE_TYPE_VMSA))
            /\ UNCHANGED calls
    /\ UNCHANGED <<parameter_areas, written, input_vars, commit_vars>>

\* An SnpIdBlock arm that rebuilds the record from its default value.
SnpIdBlockFromDefault(h) ==
    /\ InLoop
    /\ DebugAssertMask(h)
    /\ h.kind = "SnpIdBlock"
    /\ loaded_info' = [DefaultLoadedInfo EXCEPT !.snp_id_block = h.id_block]
    /\ Continue(h)
    /\ UNCHANGED <<parameter_areas, gpas, calls, written, input_vars, commit_vars>>

\* Lines 431-461.
SnpIdBlock(h) ==
    /\ InLoop
    /\ DebugAssertMask(h)
    /\ h.kind = "SnpIdBlock"
    /\ loaded_info' = [loaded_info EXCEPT !.snp_id_block = h.id_block]
    /\ Continue(h)
    /\ UNCHANGED <<parameter_areas, gpas, calls, written, input_vars, commit_vars>>

\* Line 486: the page count handed to import_pages.
InsertPageCount(max_size) == max_size \div HV_PAGE_SIZE

\* An insert that records its page as a measured Normal page.
InsertRecordsMeasured(gpa, max_size) == << GpaPages(gpa, PAGE_TYPE_NORMAL) >>

\* Lines 494-498: the page records a ParameterInsert pushes.
InsertRecords(gpa, max_size) == << GpaPages(gpa, PAGE_TYPE_UNMEASURED) >>

\* Lines 472-499.
ParameterInsert(h) ==
    /\ InLoop
    /\ DebugAssertMask(h)
    /\ h.kind = "ParameterInsert"
    /\ LET area == parameter_areas[h.parameter_area_index]
       IN  IF area.state # "Allocated"
           THEN Panic(h) /\ UNCHANGED interp_vars
           ELSE \E ok \in BOOLEAN :
                /\ calls' = Append(calls,
                      ImportPagesCall(h.gpa \div HV_PAGE_SIZE,
                                      InsertPageCount(area.max_size),
                                      "ExclusiveUnmeasured", area.data, ok))
                /\ IF ok
                   THEN /\ Continue(h)
                        /\ parameter_areas' =
                              [parameter_areas EXCEPT ![h.parameter_area_index] = Inserted]
                        /\ gpas' = gpas \o InsertRecords(h.gpa, area.max_size)
                   ELSE /\ Fail(h, "Loader")
                        /\ UNCHANGED <<parameter_areas, gpas>>
                /\ UNCHANGED <<loaded_info, written>>
    /\ UNCHANGED <<input_vars, commit_vars>>

\* An interpreter that skips a directive it does not support.
UnsupportedSkipped(h) ==
    /\ InLoop
    /\ h.kind \in UnsupportedKinds
    /\ Continue(h)
    /\ UNCHANGED <<interp_vars, input_vars, commit_vars>>

\* Lines 372-374, 462-471, 500-505: todo!().
Unsupported(h) ==
    /\ InLoop
    /\ DebugAssertMask(h)
    /\ h.kind \in UnsupportedKinds
    /\ Panic(h)
    /\ UNCHANGED <<interp_vars, input_vars, commit_vars>>

---------------------------------------------------------------------------
(* The commit pipeline (lines 509-599).                                    *)

\* One step of the stable sort of line 517: x goes after every element
\* whose gpa is not larger.
RECURSIVE InsertByGpa(_, _)
InsertByGpa(sorted, x) ==
    IF sorted = <<>> THEN <<x>>
    ELSE IF Head(sorted).gpa <= x.gpa
         THEN <<Head(sorted)>> \o InsertByGpa(Tail(sorted), x)
         ELSE <<x>> \o sorted

\* Line 517: gpas.sort_by(|a, b| a.gpa.cmp(&b.gpa)), a stable sort.
RECURSIVE SortByGpa(_)
SortByGpa(v) ==
    IF v = <<>> THEN <<>>
    ELSE InsertByGpa(SortByGpa(SubSeq(v, 1, Len(v) - 1)), v[Len(v)])

\* A grouping that also asks for the record to follow the group's last page.
JoinsLastGroupAdjacent(acc, gpa) ==
    /\ acc # <<>>
    /\ acc[Len(acc)][1].page_type = gpa.page_type
    /\ acc[Len(acc)][Len(acc[Len(acc)])].gpa + HV_PAGE_SIZE = gpa.gpa

\* Lines 522-527: the record joins the last group when that group's first
\* record has its page type.
JoinsLastGroup(acc, gpa) ==
    acc # <<>> /\ acc[Len(acc)][1].page_type = gpa.page_type

\* Lines 519-530: the fold building gpas_grouped.
RECURSIVE GroupFold(_, _)
GroupFold(acc, v) ==
    IF v = <<>> THEN acc
    ELSE IF JoinsLastGroup(acc, Head(v))
         THEN GroupFold([acc EXCEPT ![Len(acc)] = Push(@, Head(v))], Tail(v))
         ELSE GroupFold(Push(acc, <<Head(v)>>), Tail(v))

GroupPages(v) == GroupFold(<<>>, v)

\* Line 544: gpa >> ISOLATED_PAGE_SHIFT, where 1 << ISOLATED_PAGE_SHIFT is the
\* page size.
Pfn(gpa) == gpa \div HV_PAGE_SIZE

\* A call that is handed the group's first page only.
PfnsOfFirst(group) == << group[1].gpa \div HV_PAGE_SIZE >>

\* Lines 542-545.
Pfns(group) == [i \in 1..Len(group) |-> Pfn(group[i].gpa)]

\* A commit pipeline that starts once one directive has been interpreted.
DirectivesExhaustedEarly == next_header >= 1

\* Line 220: the for loop has run over every directive.
DirectivesExhausted == next_header = nheaders

\* Lines 509-530: the directives are exhausted; sort and group.
SortAndGroup ==
    /\ pc = "interp"
    /\ DirectivesExhausted
    /\ pc' = "commit"
    /\ gpas' = SortByGpa(gpas)
    /\ gpas_grouped' = GroupPages(SortByGpa(gpas))
    /\ group_idx' = 1
    /\ vcpu_idx' = 1
    /\ UNCHANGED <<result, input_vars, next_header, header, stream, parameter_areas,
                   loaded_info, calls, written>>

\* An import loop that stops one group short.
ImportLoopDoneEarly == group_idx > Len(gpas_grouped) - 1

\* The loop of line 534 has run over every group.
ImportLoopDone == group_idx > Len(gpas_grouped)

\* The loop of line 576 has run over every vCPU.
RegisterLoopDone == vcpu_idx > vcpus

\* Lines 534-565: one iteration of the import loop. to_region_addr may
\* answer None, and the unwrap of line 552 then panics before the call.
ImportIsolatedPages ==
    /\ pc = "commit"
    /\ ~ImportLoopDone
    /\ LET group == gpas_grouped[group_idx]
       IN  \E outcome \in {"ok", "fail", "unmapped"} :
           IF outcome = "unmapped"
           THEN /\ pc' = "panic"
                /\ UNCHANGED <<result, calls, group_idx>>
           ELSE /\ calls' = Append(calls,
                      ImportIsolatedPagesCall(group[1].page_type, ISOLATED_PAGE_SIZE,
                                              Pfns(group), outcome = "ok"))
                /\ IF outcome = "ok"
                   THEN /\ group_idx' = group_idx + 1
                        /\ UNCHANGED <<pc, result>>
                   ELSE /\ pc' = "err"
                        /\ result' = "ImportIsolatedPages"
                        /\ UNCHANGED group_idx
    /\ UNCHANGED <<input_vars, next_header, header, stream, parameter_areas, gpas,
                   loaded_info, gpas_grouped, vcpu_idx, written>>

\* Lines 575-581: one iteration of the register loop.
SetSevControlRegister ==
    /\ pc = "commit"
    /\ ImportLoopDone
    /\ ~RegisterLoopDone
    /\ \E ok \in BOOLEAN :
          /\ calls' = Append(calls, SetSevControlRegisterCall(vcpu_idx, 0, ok))
          /\ IF ok
             THEN /\ vcpu_idx' = vcpu_idx + 1
                  /\ UNCHANGED <<pc, result>>
             ELSE /\ pc' = "err"
                  /\ result' = "SetVmsa"
                  /\ UNCHANGED vcpu_idx
    /\ UNCHANGED <<input_vars, next_header, header, stream, parameter_areas, gpas,
                   loaded_info, gpas_grouped, group_idx, written>>

\* Lines 587-602: finalize, then Ok(loaded_info).
CompleteIsolatedImport ==
    /\ pc = "commit"
    /\ ImportLoopDone
    /\ RegisterLoopDone
    /\ \E ok \in BOOLEAN :
          /\ calls' = Append(calls,
                CompleteIsolatedImportCall(loaded_info.snp_id_block,
                                           host_data_contents, 1, ok))
          /\ IF ok
             THEN pc' = "ok" /\ result' = "Ok"
             ELSE pc' = "err" /\ result' = "CompleteIsolatedImport"
    /\ UNCHANGED <<input_vars, next_header, header, stream, parameter_areas, gpas,
                   loaded_info, gpas_grouped, group_idx, vcpu_idx, written>>

---------------------------------------------------------------------------
(* Specifications.                                                         *)

Commit ==
    \/ SortAndGroup
    \/ ImportIsolatedPages
    \/ SetSevControlRegister
    \/ CompleteIsolatedImport

\* A mixed image: every directive kind, short streams.
MixedPageData ==
    PageDataOf({0, HV_PAGE_SIZE},
               {NormalMeasured, NormalUnmeasured, Secrets, Cpuid, CpuidXf},
               {FilledPage(5)})
        \cup PageDataOf({0}, {NormalMeasured, NormalUnmeasured, Secrets, Cpuid},
                        {<<>>})
        \cup PageDataOf({0}, {NormalMeasured}, {<<5>>})

Start == StartWith(Cmdlines, 0..MaxDirectives)

Next ==
    \/ Start
    \/ \E h \in MixedPageData : PageData(h)
    \/ \E h \in ParameterAreaOf({0}, AreaSizes) : ParameterArea(h)
    \/ \E h \in FillOf("VpCount", {0}, {0, HV_PAGE_SIZE - 2}) : VpCount(h)
    \/ \E h \in FillOf("MemoryMap", {0}, {0, HV_PAGE_SIZE - 2}) : MemoryMap(h)
    \/ \E h \in FillOf("CommandLine", {0}, {0, HV_PAGE_SIZE - 2}) : CommandLine(h)
    \/ \E h \in RequiredMemoryOf({0}) : RequiredMemory(h)
    \/ \E h \in SnpVpContextOf({2 * HV_PAGE_SIZE}, {0, 1}) : SnpVpContext(h)
    \/ \E h \in SnpIdBlockDirectives : SnpIdBlock(h)
    \/ \E h \in ParameterInsertOf({0}, {0}) : ParameterInsert(h)
    \/ \E h \in UnsupportedDirectives : Unsupported(h)
    \/ Commit

Spec == Init /\ [][Next]_vars

\* A page-data image: PageData directives of three page types at three
\* addresses, and the commit pipeline over their records.
StartPages == StartWith({<<99>>}, 0..MaxPageDirectives)

NextPages ==
    \/ StartPages
    \/ \E h \in PageDataOf(Gpas, {NormalMeasured, NormalUnmeasured, Secrets},
                           {FilledPage(5)}) : PageData(h)
    \/ Commit

SpecPages == Init /\ [][NextPages]_vars

\* A parameter image: ParameterArea, fill and ParameterInsert directives on
\* two area indexes, and the commit pipeline.
StartParams == StartWith({<<99>>}, 0..MaxParamDirectives)

NextParams ==
    \/ StartParams
    \/ \E h \in ParameterAreaOf(ParameterAreaIndexes, AreaSizes) : ParameterArea(h)
    \/ \E h \in FillOf("VpCount", ParameterAreaIndexes, ByteOffsets) : VpCount(h)
    \/ \E h \in FillOf("MemoryMap", ParameterAreaIndexes, ByteOffsets) : MemoryMap(h)
    \/ \E h \in FillOf("CommandLine", ParameterAreaIndexes, ByteOffsets) : CommandLine(h)
    \/ \E h \in ParameterInsertOf({0}, ParameterAreaIndexes) : ParameterInsert(h)
    \/ Commit

SpecParams == Init /\ [][NextParams]_vars

\* A launch image: SnpVpContext, SnpIdBlock and RequiredMemory directives,
\* host data, and the commit pipeline.
StartLaunch ==
    StartFrom(Cmdlines, 0..MaxLaunchDirectives, HostDatas, {{0}}, {TRUE})

NextLaunch ==
    \/ StartLaunch
    \/ \E h \in SnpVpContextOf({HV_PAGE_SIZE, 2 * HV_PAGE_SIZE}, {0, 1}) :
          SnpVpContext(h)
    \/ \E h \in SnpIdBlockDirectives : SnpIdBlock(h)
    \/ \E h \in RequiredMemoryOf({0}) : RequiredMemory(h)
    \/ Commit

SpecLaunch == Init /\ [][NextLaunch]_vars

\* A command-line image: one parameter area, CommandLine fills, its
\* insertion, and the commit pipeline.
StartCmdline ==
    StartFrom({<<99>>, <<99, 100>>}, 0..MaxCmdlineDirectives, {NoHostData},
              {{0}}, {TRUE})

NextCmdline ==
    \/ StartCmdline
    \/ \E h \in ParameterAreaOf({0}, AreaSizes) : ParameterArea(h)
    \/ \E h \in FillOf("CommandLine", {0}, {0, 2}) : CommandLine(h)
    \/ \E h \in ParameterInsertOf({0, HV_PAGE_SIZE}, {0}) : ParameterInsert(h)
    \/ Commit

SpecCmdline == Init /\ [][NextCmdline]_vars

\* A masked image: directives of every compatibility mask, on platforms of
\* two masks, in a debug and in a release build.
MaskedDirectives ==
    WithMask(PageDataOf({0}, {NormalMeasured, Secrets}, {FilledPage(5)})
                 \cup SnpIdBlockDirectives
                 \cup SnpVpContextOf({HV_PAGE_SIZE}, {0})
                 \cup RequiredMemoryOf({0}),
             DirectiveMasks)

StartMask ==
    StartFrom({<<99>>}, 0..MaxMaskDirectives, {NoHostData}, PlatformMasks, BOOLEAN)

NextMask ==
    \/ StartMask
    \/ \E h \in MaskedDirectives : MaskMismatch(h)
    \/ \E h \in MaskedDirectives : PageData(h)
    \/ \E h \in MaskedDirectives : SnpIdBlock(h)
    \/ \E h \in MaskedDirectives : SnpVpContext(h)
    \/ \E h \in MaskedDirectives : RequiredMemory(h)
    \/ \E h \in ParameterAreaOf({0}, {HV_PAGE_SIZE}) : ParameterArea(h)
    \/ Commit

SpecMask == Init /\ [][NextMask]_vars

---------------------------------------------------------------------------
(* Properties.                                                             *)

CommitOps ==
    {"import_isolated_pages", "set_sev_control_register", "complete_isolated_import"}

\* The calls of one operation, in the order they were issued.
CallsOf(op) == SelectSeq(calls, LAMBDA c : c.op = op)

\* The positions of the log holding a call of op.
PositionsOf(op) == { i \in 1..Len(calls) : calls[i].op = op }

RECURSIVE Flatten(_)
Flatten(groups) ==
    IF groups = <<>> THEN <<>> ELSE Head(groups) \o Flatten(Tail(groups))

\* C1: import_isolated_pages, set_sev_control_register(0) and
\* complete_isolated_import never interleave: every register write comes
\* after an import call of every group has returned, and the finalize call
\* comes after the register has been written on every vCPU.
C1_PhasesInOrder ==
    /\ \A i \in PositionsOf("set_sev_control_register") :
          /\ \A j \in PositionsOf("import_isolated_pages") : j < i /\ calls[j].ok
          /\ Cardinality(PositionsOf("import_isolated_pages")) = Len(gpas_grouped)
          /\ calls[i].value = 0
    /\ \A i \in PositionsOf("complete_isolated_import") :
          /\ \A j \in PositionsOf("import_isolated_pages")
                        \cup PositionsOf("set_sev_control_register") :
                j < i /\ calls[j].ok
          /\ Cardinality(PositionsOf("import_isolated_pages")) = Len(gpas_grouped)
          /\ { calls[j].vcpu : j \in PositionsOf("set_sev_control_register") }
                = 1..vcpus

\* C1 witness: a load that succeeded with two import groups and two vCPUs.
C1_Witness ==
    /\ pc = "ok"
    /\ Len(gpas_grouped) >= 2
    /\ vcpus >= 2
    /\ Len(CallsOf("set_sev_control_register")) = 2

\* C2: a commit-pipeline call is in the log only when every directive has
\* been interpreted, and the groups the pipeline works on hold exactly the
\* page records collected during interpretation.
C2_CommitAfterLastDirective ==
    (pc = "commit" \/ \E i \in 1..Len(calls) : calls[i].op \in CommitOps)
        => /\ next_header = nheaders
           /\ Flatten(gpas_grouped) = gpas

\* C2 witness: a two-directive stream whose commit pipeline has issued a
\* call over both records.
C2_Witness ==
    /\ nheaders = 2
    /\ Len(gpas) = 2
    /\ PositionsOf("import_isolated_pages") # {}

\* The Error variant load_igvm returns when a collaborator call fails.
ErrorOf(op) ==
    CASE op = "import_pages" -> "Loader"
      [] op = "verify_startup_memory_available" -> "Loader"
      [] op = "generate_ram_ranges" -> "InvalidGuestMemmap"
      [] op = "import_isolated_pages" -> "ImportIsolatedPages"
      [] op = "set_sev_control_register" -> "SetVmsa"
      [] op = "complete_isolated_import" -> "CompleteIsolatedImport"

Terminated == pc \in {"ok", "err", "panic"}

\* C3, in every state: Ok is returned only after every directive was
\* interpreted, every group imported, the register written on every vCPU
\* and the import completed, all successfully; a failed collaborator call
\* is the last call of the log and its error is what load_igvm returns; an
\* error of any kind ends the run.
C3_StateOk ==
    /\ pc = "ok" =>
          /\ result = "Ok"
          /\ next_header = nheaders
          /\ \A i \in 1..Len(calls) : calls[i].ok
          /\ Len(CallsOf("import_isolated_pages")) = Len(gpas_grouped)
          /\ { c.vcpu : c \in { calls[j] : j \in PositionsOf("set_sev_control_register") } }
                = 1..vcpus
          /\ Len(CallsOf("complete_isolated_import")) = 1
    /\ \A i \in 1..Len(calls) :
          ~calls[i].ok =>
              /\ i = Len(calls)
              /\ pc = "err"
              /\ result = ErrorOf(calls[i].op)
    /\ result \notin {"none", "Ok"} => pc = "err"
    /\ result = "ParameterTooLarge" =>
          /\ header.kind \in {"VpCount", "MemoryMap", "CommandLine"}
          /\ \A i \in 1..Len(calls) : calls[i].op \notin CommitOps

\* C3: load_igvm returns Ok only when every step succeeded, and once it has
\* returned (Ok, an error or a panic) nothing more happens: no later
\* collaborator call of any kind.
C3_AllOrFirstError ==
    /\ []C3_StateOk
    /\ [][Terminated => UNCHANGED vars]_vars

\* C3 witness: the register write failed on the second vCPU, after
\* interpretation, the imports and the first write had succeeded.
C3_Witness ==
    /\ pc = "err"
    /\ result = "SetVmsa"
    /\ Len(CallsOf("set_sev_control_register")) = 2
    /\ Len(CallsOf("import_isolated_pages")) >= 1

\* The pages an import_pages call that succeeded has written.
PagesOfCall(c) == c.page_base .. (c.page_base + c.page_count - 1)

\* The pages the page records cover: each record is one page.
RecordedPages == { Pfn(gpas[i].gpa) : i \in 1..Len(gpas) }

\* C10: once interpretation is over there is a page record for every guest
\* page a directive committed through import_pages.
C10_EveryCommittedPageRecorded ==
    pc \in {"commit", "ok"} =>
        \A i \in PositionsOf("import_pages") :
            calls[i].ok => PagesOfCall(calls[i]) \subseteq RecordedPages

FillKinds == {"VpCount", "MemoryMap", "CommandLine"}

\* A step of the directive loop: the body ran for the directive header'.
LoopStep ==
    /\ pc = "interp"
    /\ \/ pc' = "interp" /\ next_header' = next_header + 1
       \/ pc' \in {"err", "panic"}

\* Absent, then Allocated, then Inserted.
Rank(area) ==
    CASE area.state = "Absent" -> 0
      [] area.state = "Allocated" -> 1
      [] area.state = "Inserted" -> 2

\* C4: a ParameterArea directive goes through only for an index that is
\* absent, and aborts for one that is allocated or inserted; a
\* ParameterInsert goes through only for an allocated index and leaves it
\* inserted; a fill returns Ok only for an allocated index; and no directive
\* that goes through moves an index back (absent, allocated, inserted), so
\* an index is declared at most once and inserted at most once.
C4_AreaLifecycle ==
    [][LoopStep =>
        LET h == header'
            before == parameter_areas[h.parameter_area_index]
            after == parameter_areas'[h.parameter_area_index]
        IN  /\ h.kind = "ParameterArea" =>
                  IF before.state = "Absent"
                  THEN pc' = "interp" /\ after.state = "Allocated"
                  ELSE pc' = "panic"
            /\ (h.kind = "ParameterInsert" /\ pc' = "interp") =>
                  before.state = "Allocated" /\ after.state = "Inserted"
            /\ (h.kind \in FillKinds /\ pc' = "interp") =>
                  before.state = "Allocated" /\ after.state = "Allocated"
            /\ pc' = "interp" =>
                  \A j \in ParameterAreaIndexes :
                      Rank(parameter_areas'[j]) >= Rank(parameter_areas[j])
    ]_vars

\* C4 witness: the re-declaration of an index that had been inserted has
\* aborted the load.
C4_Witness ==
    /\ pc = "panic"
    /\ header.kind = "ParameterArea"
    /\ \E i \in PositionsOf("import_pages") :
          calls[i].ok /\ calls[i].acceptance = "ExclusiveUnmeasured"

\* C5: while load_igvm runs, in every allocated area each position a fill
\* has written holds the bytes of the last fill that wrote there, and the
\* buffer is never longer than max_size.
C5_LastWriteWins ==
    \A i \in ParameterAreaIndexes :
        (pc # "panic" /\ parameter_areas[i].state = "Allocated") =>
            /\ Len(parameter_areas[i].data) <= parameter_areas[i].max_size
            /\ \A p \in 1..Len(written[i]) :
                  written[i][p] # -1 =>
                      /\ p <= Len(parameter_areas[i].data)
                      /\ parameter_areas[i].data[p] = written[i][p]

\* C5 witness: a CommandLine fill at offset 2 has overwritten the upper
\* half of the VpCount written at offset 0.
C5_Witness ==
    \E i \in ParameterAreaIndexes :
        /\ parameter_areas[i].state = "Allocated"
        /\ header.kind = "CommandLine"
        /\ Len(written[i]) = 4
        /\ written[i][1] = vcpus
        /\ written[i][3] = 99

\* The loop body of header' has called import_parameter.
FillCalled ==
    \/ header'.kind \in {"VpCount", "CommandLine"}
    \/ /\ header'.kind = "MemoryMap"
       /\ calls'[Len(calls')].ok
       /\ \A k \in 1..Len(calls'[Len(calls')].ranges) :
             RamRangeAligned(calls'[Len(calls')].ranges[k])

\* The length of the parameter that call was given.
FillLength ==
    CASE header'.kind = "VpCount" -> 4
      [] header'.kind = "CommandLine" -> Len(command_line) + 1
      [] header'.kind = "MemoryMap" -> 24 * Len(calls'[Len(calls')].ranges)

\* C6: an import_parameter call on an allocated area with
\* byte_offset + len(bytes) > max_size returns ParameterTooLarge and leaves
\* every area (buffer, length, max_size) as it was.
C6_TooLargeLeavesAreas ==
    [][(/\ LoopStep
        /\ FillCalled
        /\ parameter_areas[header'.parameter_area_index].state = "Allocated"
        /\ header'.byte_offset + FillLength
              > parameter_areas[header'.parameter_area_index].max_size)
        => /\ pc' = "err"
           /\ result' = "ParameterTooLarge"
           /\ parameter_areas' = parameter_areas
    ]_vars

\* C6 witness: a fill was refused on an area that already held bytes.
C6_Witness ==
    /\ pc = "err"
    /\ result = "ParameterTooLarge"
    /\ parameter_areas[header.parameter_area_index].state = "Allocated"
    /\ parameter_areas[header.parameter_area_index].data # <<>>

\* The directive header' addresses an area that is absent or inserted.
OnUnusableArea ==
    /\ LoopStep
    /\ header'.kind \in FillKinds \cup {"ParameterInsert"}
    /\ parameter_areas[header'.parameter_area_index].state # "Allocated"

\* Nothing is written: no area, no page record, no import_pages call.
NothingWritten ==
    /\ parameter_areas' = parameter_areas
    /\ gpas' = gpas
    /\ PositionsOf("import_pages") =
          { i \in 1..Len(calls') : calls'[i].op = "import_pages" }

\* C7 as stated: a fill or a ParameterInsert for an index that is inserted
\* or was never declared aborts the load as a fatal violation and writes
\* nothing.
C7_UnusableAreaIsFatal ==
    [][OnUnusableArea => pc' = "panic" /\ NothingWritten]_vars

\* C7 as amended: a fill or a ParameterInsert for an index that is inserted
\* or was never declared writes nothing and ends the load: as a fatal
\* violation, or, for a MemoryMap directive whose memory-map generation
\* fails before the area is looked at, with the error InvalidGuestMemmap.
C7_UnusableAreaEndsLoad ==
    [][OnUnusableArea =>
        /\ NothingWritten
        /\ \/ pc' = "panic"
           \/ /\ header'.kind = "MemoryMap"
              /\ pc' = "err"
              /\ result' = "InvalidGuestMemmap"
              /\ ~calls'[Len(calls')].ok
    ]_vars

\* C7 witness: a fill for an index that had been inserted has aborted the
\* load.
C7_Witness ==
    /\ pc = "panic"
    /\ header.kind \in FillKinds
    /\ parameter_areas[header.parameter_area_index].state = "Inserted"

\* The records of v at guest address a, in the order of v.
AtAddress(v, a) == SelectSeq(v, LAMBDA r : r.gpa = a)

\* g is v sorted by ascending guest address, records of equal address in
\* the order they have in v.
IsStableSortOf(g, v) ==
    /\ Len(g) = Len(v)
    /\ \A k \in 1..(Len(g) - 1) : g[k].gpa <= g[k + 1].gpa
    /\ \A a \in { v[i].gpa : i \in 1..Len(v) } : AtAddress(g, a) = AtAddress(v, a)

\* The position in the concatenation at which group k starts.
StartOf(groups, k) == Len(Flatten(SubSeq(groups, 1, k - 1))) + 1

\* C8: the step that sorts and groups leaves groups that, concatenated in
\* order, are the records sorted by ascending guest address with records of
\* equal address in directive order; every group is non-empty and of one
\* page type; and a group starts exactly where a record's page type differs
\* from the record before it in sorted order.
C8_SortedMaximalRuns ==
    [][(pc = "interp" /\ pc' = "commit") =>
        LET groups == gpas_grouped'
            sorted == Flatten(groups)
        IN  /\ IsStableSortOf(sorted, gpas)
            /\ \A k \in 1..Len(groups) :
                  /\ groups[k] # <<>>
                  /\ \A j \in 1..Len(groups[k]) :
                        groups[k][j].page_type = groups[k][1].page_type
            /\ { StartOf(groups, k) : k \in 2..Len(groups) }
                  = { p \in 2..Len(sorted) :
                        sorted[p].page_type # sorted[p - 1].page_type }
    ]_vars

\* C8 witness: three records given out of address order have been sorted
\* into more than one group.
C8_Witness ==
    /\ pc = "commit"
    /\ Len(gpas) = 3
    /\ Len(gpas_grouped) >= 2
    /\ \E i, j \in PositionsOf("import_pages") :
          i < j /\ calls[i].page_base > calls[j].page_base

\* The import loop is over: a later call of the pipeline has been issued.
AfterImportLoop ==
    \/ pc = "ok"
    \/ PositionsOf("set_sev_control_register") # {}
    \/ PositionsOf("complete_isolated_import") # {}

\* C9: the k-th import_isolated_pages call carries the page type and the
\* page-frame numbers of exactly the k-th group; when the import loop is
\* over without a failure there is one call per group, and the calls
\* together carry every page record once.
C9_OneImportPerGroup ==
    LET imports == CallsOf("import_isolated_pages")
    IN  /\ Len(imports) <= Len(gpas_grouped)
        /\ \A k \in 1..Len(imports) :
              /\ imports[k].page_type = gpas_grouped[k][1].page_type
              /\ imports[k].page_size = ISOLATED_PAGE_SIZE
              /\ imports[k].pfns =
                    [j \in 1..Len(gpas_grouped[k]) |->
                        gpas_grouped[k][j].gpa \div HV_PAGE_SIZE]
        /\ AfterImportLoop =>
              /\ Len(imports) = Len(gpas_grouped)
              /\ Flatten([k \in 1..Len(imports) |-> imports[k].pfns])
                    = [i \in 1..Len(gpas) |-> gpas[i].gpa \div HV_PAGE_SIZE]

\* C9 witness: a load that succeeded with three records in two groups.
C9_Witness ==
    /\ pc = "ok"
    /\ Len(gpas) = 3
    /\ Len(gpas_grouped) = 2
    /\ Len(CallsOf("import_isolated_pages")) = 2

\* The SnpVpContext directives of the stream with VP index 0.
VpZeroContexts ==
    { i \in 1..Len(stream) :
        stream[i].kind = "SnpVpContext" /\ stream[i].vp_index = 0 }

\* C11: on a successful load of a stream with one SnpVpContext directive of
\* VP index 0, the returned record's VMSA and VMSA guest address are those
\* of that directive, whatever SnpVpContext directives of another index the
\* stream holds.
C11_VmsaOfVpZero ==
    (pc = "ok" /\ Cardinality(VpZeroContexts) = 1) =>
        \A i \in VpZeroContexts :
            /\ loaded_info.vmsa = stream[i].vmsa
            /\ loaded_info.vmsa_gpa = stream[i].gpa

\* C12: after a PageData directive of type Cpuid whose import succeeded,
\* whatever its payload, the guest page at the directive's address holds
\* the entry count 1 in its first four bytes and zeros in every other byte.
C12_CpuidPageCanonical ==
    [][(/\ LoopStep
        /\ header'.kind = "PageData"
        /\ header'.data_type = "CPUID_DATA"
        /\ pc' = "interp")
        => LET page == GuestPage(calls', header'.gpa \div HV_PAGE_SIZE)
           IN  /\ Len(page) = HV_PAGE_SIZE
               /\ SubSeq(page, 1, 4) = <<1, 0, 0, 0>>
               /\ \A i \in 5..HV_PAGE_SIZE : page[i] = 0
    ]_vars

\* C12 witness: a Cpuid directive with a full page of payload has been
\* written over a page that a Normal directive had filled before.
C12_Witness ==
    /\ pc = "interp"
    /\ Len(stream) = 2
    /\ stream[1].kind = "PageData" /\ stream[1].data_type = "NORMAL"
    /\ stream[1].data = FilledPage(5)
    /\ stream[2].kind = "PageData" /\ stream[2].data_type = "CPUID_DATA"
    /\ stream[2].data = FilledPage(5)
    /\ stream[1].gpa = stream[2].gpa
    /\ Len(calls) = 2

\* The stream ParameterArea(index 0, one page), CommandLine(index 0,
\* offset 0), ParameterInsert(index 0, any gpa) has been loaded.
CmdlineStreamLoaded ==
    /\ pc = "ok"
    /\ Len(stream) = 3
    /\ stream[1].kind = "ParameterArea"
    /\ stream[1].parameter_area_index = 0
    /\ stream[1].number_of_bytes = HV_PAGE_SIZE
    /\ stream[2].kind = "CommandLine"
    /\ stream[2].parameter_area_index = 0
    /\ stream[2].byte_offset = 0
    /\ stream[3].kind = "ParameterInsert"
    /\ stream[3].parameter_area_index = 0

\* One import group, of type Unmeasured, for the page at the insert's gpa,
\* and that guest page holds the command line, a NUL byte, and zeros to
\* the end of the page.
CmdlinePageImported ==
    LET imports == CallsOf("import_isolated_pages")
        page == stream[3].gpa \div HV_PAGE_SIZE
    IN  /\ Len(imports) = 1
        /\ imports[1].page_type = 4
        /\ imports[1].pfns = << page >>
        /\ GuestPage(calls, page) =
              command_line \o <<0>>
                  \o [i \in 1..(HV_PAGE_SIZE - Len(command_line) - 1) |-> 0]

\* C13 as stated: the stream ParameterArea(index 0, one page),
\* CommandLine(index 0, offset 0), ParameterInsert(index 0, gpa G) gives
\* exactly one import group, of type Unmeasured, and the page at G holds the
\* command line followed by a NUL byte and zeros to the end of the page.
C13_CmdlineEndToEnd == CmdlineStreamLoaded => CmdlinePageImported

\* C13 as amended: the same, for a ParameterArea directive whose initial
\* data is empty.
C13_CmdlineEndToEndNoInitialData ==
    (CmdlineStreamLoaded /\ stream[1].initial_data = <<>>) => CmdlinePageImported

\* C13 witness: the stream has been loaded, the area declared without
\* initial data and inserted at the second page.
C13_Witness ==
    /\ CmdlineStreamLoaded
    /\ stream[1].initial_data = <<>>
    /\ stream[3].gpa = HV_PAGE_SIZE
    /\ command_line = <<99, 100>>

\* C14: a directive whose declared compatibility mask does not contain
\* every bit of the platform's mask aborts the load before it has any
\* effect: no import_pages or other call, no page record, no registry or
\* output-record change.
C14_MaskMismatchAborts ==
    [][(/\ LoopStep
        /\ "compatibility_mask" \in DOMAIN header'
        /\ \E bit \in mask : bit \notin header'.compatibility_mask)
        => /\ pc' = "panic"
           /\ calls' = calls
           /\ gpas' = gpas
           /\ parameter_areas' = parameter_areas
           /\ loaded_info' = loaded_info
    ]_vars

\* A directive of a kind, or a PageData directive of a page type, that the
\* interpreter does not support.
IsUnsupported(h) ==
    \/ h.kind \in {"MmioRanges", "ErrorRange", "X64VbsVpContext", "VbsMeasurement",
                   "Other"}
    \/ h.kind = "PageData" /\ h.data_type \notin {"NORMAL", "SECRETS", "CPUID_DATA"}

\* C15: an unsupported directive that the interpreter reaches aborts the
\* load: it is the last directive interpreted, the loop has not moved on to
\* the next one, and the load has not returned (neither Ok nor an error).
C15_UnsupportedAborts ==
    \A i \in 1..Len(stream) :
        IsUnsupported(stream[i]) =>
            /\ pc = "panic"
            /\ result = "none"
            /\ i = Len(stream)
            /\ next_header = i - 1

\* C15 witness: a directive of an unsupported kind has aborted a load whose
\* first directive had been interpreted.
C15_Witness ==
    /\ pc = "panic"
    /\ Len(stream) = 2
    /\ stream[1].kind = "PageData" /\ ~IsUnsupported(stream[1])
    /\ stream[2].kind = "ErrorRange"

\* The 24 bytes of a memory-map entry of type MEMORY (0) with a starting
\* page and a page count below 256: two u64, then type, flags and reserved,
\* all zero.
ExpectedEntryBytes(starting_page, pages) ==
    <<starting_page, 0, 0, 0, 0, 0, 0, 0>> \o <<pages, 0, 0, 0, 0, 0, 0, 0>>
        \o <<0, 0, 0, 0, 0, 0, 0, 0>>

RECURSIVE ExpectedMapBytes(_)
ExpectedMapBytes(ranges) ==
    IF ranges = <<>> THEN <<>>
    ELSE ExpectedEntryBytes(ranges[1][1] \div HV_PAGE_SIZE,
                            (ranges[1][2] - ranges[1][1]) \div HV_PAGE_SIZE)
             \o ExpectedMapBytes(Tail(ranges))

\* C16: for the RAM ranges a MemoryMap directive is answered with, a range
\* that is not page-aligned aborts; otherwise the memory map written to the
\* area is one entry per range, in range order, with starting page
\* start / page_size, page count (end - start) / page_size and type MEMORY,
\* and nothing more.
C16_MemoryMapEntries ==
    [][(/\ LoopStep
        /\ header'.kind = "MemoryMap"
        /\ calls'[Len(calls')].ok)
        => LET ranges == calls'[Len(calls')].ranges
               index == header'.parameter_area_index
               offset == header'.byte_offset
               length == 24 * Len(ranges)
           IN  IF \E k \in 1..Len(ranges) :
                     \/ ranges[k][1] % HV_PAGE_SIZE # 0
                     \/ (ranges[k][2] - ranges[k][1]) % HV_PAGE_SIZE # 0
               THEN pc' = "panic"
               ELSE pc' = "interp" =>
                     /\ SubSeq(parameter_areas'[index].data, offset + 1,
                               offset + length) = ExpectedMapBytes(ranges)
                     /\ Len(parameter_areas'[index].data) =
                           IF Len(parameter_areas[index].data) >= offset + length
                           THEN Len(parameter_areas[index].data)
                           ELSE offset + length
    ]_vars

\* C16 witness: the ranges (0, one page) and (two pages, three pages) have
\* been written to an area as the entries (0, 1) and (2, 1).
C16_Witness ==
    /\ pc = "interp"
    /\ header.kind = "MemoryMap"
    /\ header.byte_offset = 0
    /\ calls[Len(calls)].ranges =
          << <<0, HV_PAGE_SIZE>>, <<2 * HV_PAGE_SIZE, 3 * HV_PAGE_SIZE>> >>
    /\ parameter_areas[header.parameter_area_index].data =
          ExpectedEntryBytes(0, 1) \o ExpectedEntryBytes(2, 1)

\* The SnpIdBlock directives of the stream.
IdBlockDirectives == { i \in 1..Len(stream) : stream[i].kind = "SnpIdBlock" }

\* The ID block the stream's SnpIdBlock directives leave: the fields of the
\* last one, the default value 0 when there is none.
AccumulatedIdBlock ==
    IF IdBlockDirectives = {} THEN 0
    ELSE stream[CHOOSE i \in IdBlockDirectives :
                    \A j \in IdBlockDirectives : j <= i].id_block

\* The 32-byte salt of the host data that load_igvm accepts: zeros without
\* host data, 0xaf in every byte for "aF" x 32, 0x10 for "10" x 32.
ExpectedSalt ==
    IF ~host_data.some THEN [i \in 1..32 |-> 0]
    ELSE IF host_data.str[1] = "a" THEN [i \in 1..32 |-> 175]
    ELSE [i \in 1..32 |-> 16]

\* C17: on a successful load complete_isolated_import has been called
\* exactly once, with the ID block accumulated from the stream's SnpIdBlock
\* directives (the default when there is none), a VMSA count of 1 and the
\* 32 bytes decoded from the host-data hex string, all zeros without host
\* data.
C17_CompleteCalledOnce ==
    pc = "ok" =>
        LET completes == CallsOf("complete_isolated_import")
        IN  /\ Len(completes) = 1
            /\ completes[1].id_block = AccumulatedIdBlock
            /\ completes[1].vmsa_count = 1
            /\ completes[1].host_data = ExpectedSalt

\* C17 witness: a load with host data and two SnpIdBlock directives has
\* succeeded.
C17_Witness ==
    /\ pc = "ok"
    /\ host_data.some
    /\ Len(stream) = 2
    /\ stream[1].kind = "SnpIdBlock" /\ stream[1].id_block = 1
    /\ stream[2].kind = "SnpIdBlock" /\ stream[2].id_block = 2

\* C18 as stated: ParameterArea, VpCount, MemoryMap, CommandLine,
\* RequiredMemory, VpContext and IdBlock directives leave the list of page
\* records unchanged.
C18_OnlyPageDataAndInsertRecord ==
    [][(/\ LoopStep
        /\ header'.kind \in {"ParameterArea", "VpCount", "MemoryMap", "CommandLine",
                             "RequiredMemory", "SnpVpContext", "SnpIdBlock"})
        => gpas' = gpas
    ]_vars

\* C18 as amended: the list of page records is extended only by PageData,
\* ParameterInsert and VpContext directives, by one record at its end;
\* ParameterArea, VpCount, MemoryMap, CommandLine, RequiredMemory and
\* IdBlock directives leave it unchanged.
C18_OnlyPageDataInsertAndVpContextRecord ==
    [][LoopStep =>
        /\ header'.kind \in {"ParameterArea", "VpCount", "MemoryMap", "CommandLine",
                              "RequiredMemory", "SnpIdBlock"}
              => gpas' = gpas
        /\ gpas' # gpas =>
              /\ header'.kind \in {"PageData", "ParameterInsert", "SnpVpContext"}
              /\ Len(gpas') = Len(gpas) + 1
              /\ SubSeq(gpas', 1, Len(gpas)) = gpas
    ]_vars

\* C18 witness: a RequiredMemory directive has left the list empty and the
\* VpContext directive after it has added a record.
C18_Witness ==
    /\ pc = "interp"
    /\ Len(stream) = 2
    /\ stream[1].kind = "RequiredMemory"
    /\ stream[2].kind = "SnpVpContext"
    /\ Len(gpas) = 1
    /\ gpas[1].page_type = 2

\* C19: PageData, ParameterArea, VpCount, MemoryMap, CommandLine and
\* ParameterInsert directives leave every field of the output record
\* unchanged, so only VpContext, IdBlock and RequiredMemory directives
\* change it; an IdBlock directive sets the record's ID block and changes
\* nothing else: no other field, no collaborator call, no page record, no
\* parameter area.
C19_OutputRecordFrame ==
    [][LoopStep =>
        /\ header'.kind \in {"PageData", "ParameterArea", "VpCount", "MemoryMap",
                              "CommandLine", "ParameterInsert"}
              => loaded_info' = loaded_info
        /\ loaded_info' # loaded_info
              => header'.kind \in {"SnpVpContext", "SnpIdBlock", "RequiredMemory"}
        /\ header'.kind = "SnpIdBlock" =>
              /\ loaded_info'.snp_id_block = header'.id_block
              /\ loaded_info'.gpas = loaded_info.gpas
              /\ loaded_info'.vmsa = loaded_info.vmsa
              /\ loaded_info'.vmsa_gpa = loaded_info.vmsa_gpa
              /\ calls' = calls
              /\ gpas' = gpas
              /\ parameter_areas' = parameter_areas
    ]_vars

\* C19 witness: an IdBlock directive has been interpreted after a
\* VpContext directive, whose VMSA and address the record still holds.
C19_Witness ==
    /\ pc = "interp"
    /\ Len(stream) = 2
    /\ stream[1].kind = "SnpVpContext"
    /\ stream[2].kind = "SnpIdBlock"
    /\ loaded_info.snp_id_block = 2
    /\ loaded_info.vmsa_gpa = stream[1].gpa
    /\ loaded_info.vmsa = stream[1].vmsa
    /\ loaded_info.vmsa_gpa # 0

\* The page type and the acceptance policy of a PageData directive of a
\* supported type.
ExpectedClassification(h) ==
    CASE h.data_type = "NORMAL" /\ h.unmeasured -> <<4, "ExclusiveUnmeasured">>
      [] h.data_type = "NORMAL" /\ ~h.unmeasured -> <<1, "Exclusive">>
      [] h.data_type = "SECRETS" -> <<5, "SecretsPage">>
      [] h.data_type = "CPUID_DATA" -> <<6, "CpuidPage">>

\* C20: a PageData directive of type Normal, Secrets or Cpuid whose payload
\* is empty or one page long is interpreted, appends exactly one page
\* record at its address, and hands its page to import_pages; the record's
\* page type and the acceptance policy are (Unmeasured,
\* ExclusiveUnmeasured) for Normal with the unmeasured flag, (Normal,
\* Exclusive) for Normal without it, (Secrets, SecretsPage) and (Cpuid,
\* CpuidPage), whichever the payload.
C20_PageDataClassification ==
    [][(/\ LoopStep
        /\ header'.kind = "PageData"
        /\ header'.data_type \in {"NORMAL", "SECRETS", "CPUID_DATA"}
        /\ Len(header'.data) \in {0, HV_PAGE_SIZE})
        => LET h == header'
               expected == ExpectedClassification(h)
           IN  /\ pc' # "panic"
               /\ gpas' = Append(gpas, [gpa |-> h.gpa, page_type |-> expected[1],
                                         page_size |-> 4096])
               /\ Len(calls') = Len(calls) + 1
               /\ calls'[Len(calls')].op = "import_pages"
               /\ calls'[Len(calls')].page_base = h.gpa \div HV_PAGE_SIZE
               /\ calls'[Len(calls')].page_count = 1
               /\ calls'[Len(calls')].acceptance = expected[2]
    ]_vars

\* C20 witness: an unmeasured Normal directive with an empty payload has
\* followed one with a page of payload; both records are Unmeasured.
C20_Witness ==
    /\ pc = "interp"
    /\ Len(stream) = 2
    /\ stream[1].kind = "PageData" /\ stream[1].data_type = "NORMAL"
    /\ stream[1].unmeasured /\ Len(stream[1].data) = HV_PAGE_SIZE
    /\ stream[2].kind = "PageData" /\ stream[2].data_type = "NORMAL"
    /\ stream[2].unmeasured /\ stream[2].data = <<>>
    /\ Len(gpas) = 2
    /\ gpas[1].page_type = 4 /\ gpas[2].page_type = 4

\* The record a SnpVpContext directive appends: type Vmsa (2), at its gpa.
VmsaRecord(h) == [gpa |-> h.gpa, page_type |-> 2, page_size |-> 4096]

\* One step of the loop for a SnpVpContext directive: with a non-zero VP
\* index no collaborator is called and the Vmsa record is appended; with
\* index 0 import_pages is called for one page at the directive's address,
\* with the VpContext acceptance and the snapshot followed by zeros to the
\* end of the page, and the record is appended when the call succeeds.
VpContextStep ==
    (LoopStep /\ header'.kind = "SnpVpContext") =>
        LET h == header'
        IN  IF h.vp_index # 0
            THEN /\ calls' = calls
                 /\ pc' = "interp"
                 /\ gpas' = Append(gpas, VmsaRecord(h))
            ELSE /\ Len(calls') = Len(calls) + 1
                 /\ SubSeq(calls', 1, Len(calls)) = calls
                 /\ LET c == calls'[Len(calls')]
                    IN  /\ c.op = "import_pages"
                        /\ c.acceptance = "VpContext"
                        /\ c.page_base = h.gpa \div HV_PAGE_SIZE
                        /\ c.page_count = 1
                        /\ Len(c.data) = HV_PAGE_SIZE
                        /\ SubSeq(c.data, 1, Len(h.vmsa)) = h.vmsa
                        /\ \A i \in (Len(h.vmsa) + 1)..HV_PAGE_SIZE : c.data[i] = 0
                        /\ c.ok => pc' = "interp" /\ gpas' = Append(gpas, VmsaRecord(h))
                        /\ ~c.ok => pc' = "err" /\ gpas' = gpas

\* In every state: the import_pages calls with the VpContext acceptance
\* are as many as the SnpVpContext directives of index 0, and after a
\* successful load the page of every SnpVpContext directive, of any index,
\* has been passed to import_isolated_pages with the page type Vmsa.
VpContextPagesImported ==
    /\ Cardinality({ i \in PositionsOf("import_pages") :
                        calls[i].acceptance = "VpContext" })
          = Cardinality(VpZeroContexts)
    /\ pc = "ok" =>
          \A i \in 1..Len(stream) :
              stream[i].kind = "SnpVpContext" =>
                  \E k \in PositionsOf("import_isolated_pages") :
                      /\ calls[k].page_type = 2
                      /\ \E j \in 1..Len(calls[k].pfns) :
                            calls[k].pfns[j] = stream[i].gpa \div HV_PAGE_SIZE

\* C21: a SnpVpContext directive with a non-zero VP index writes nothing to
\* guest memory and still appends a page record of type Vmsa at its
\* address, which import_isolated_pages is later given; only a directive
\* with index 0 writes the VMSA page, the snapshot followed by zeros to one
\* page, with the VpContext acceptance.
C21_NonZeroVpRecordedNotWritten ==
    /\ []VpContextPagesImported
    /\ [][VpContextStep]_vars

\* C21 witness: a load of a directive of index 1 and a directive of index 0
\* at another page has succeeded with one import_pages call.
C21_Witness ==
    /\ pc = "ok"
    /\ Len(stream) = 2
    /\ stream[1].kind = "SnpVpContext" /\ stream[1].vp_index = 1
    /\ stream[2].kind = "SnpVpContext" /\ stream[2].vp_index = 0
    /\ stream[1].gpa # stream[2].gpa
    /\ Cardinality(PositionsOf("import_pages")) = 1
    /\ Len(gpas) = 2

\* The ParameterInsert directives of the stream.
InsertDirectives == { k \in 1..Len(stream) : stream[k].kind = "ParameterInsert" }

\* One step of the loop for a VpCount, MemoryMap or CommandLine directive:
\* no import_pages call, no page record, no change of the output record,
\* every other area as it was, and the addressed area still in its state
\* and with its max_size.
FillStepFrame ==
    (LoopStep /\ header'.kind \in {"VpCount", "MemoryMap", "CommandLine"}) =>
        LET index == header'.parameter_area_index
        IN  /\ \A k \in (Len(calls) + 1)..Len(calls') :
                  calls'[k].op = "generate_ram_ranges"
            /\ SubSeq(calls', 1, Len(calls)) = calls
            /\ gpas' = gpas
            /\ loaded_info' = loaded_info
            /\ \A j \in DOMAIN parameter_areas :
                  j # index => parameter_areas'[j] = parameter_areas[j]
            /\ parameter_areas'[index].state = parameter_areas[index].state
            /\ parameter_areas[index].state = "Allocated" =>
                  parameter_areas'[index].max_size = parameter_areas[index].max_size

\* In every state of a parameter image: each import_pages call and each
\* page record comes from a ParameterInsert directive, and each page given
\* to import_isolated_pages is the page of one; without a ParameterInsert
\* there is no guest-memory write and no imported page.
OnlyInsertsReachMemory ==
    /\ Cardinality(PositionsOf("import_pages")) <= Cardinality(InsertDirectives)
    /\ Len(gpas) <= Cardinality(InsertDirectives)
    /\ \A k \in PositionsOf("import_pages") :
          \E d \in InsertDirectives :
              calls[k].page_base = stream[d].gpa \div HV_PAGE_SIZE
    /\ \A k \in PositionsOf("import_isolated_pages") :
          \A j \in 1..Len(calls[k].pfns) :
              \E d \in InsertDirectives :
                  calls[k].pfns[j] = stream[d].gpa \div HV_PAGE_SIZE
    /\ InsertDirectives = {} =>
          PositionsOf("import_pages") \cup PositionsOf("import_isolated_pages") = {}

\* C22: a VpCount, MemoryMap or CommandLine directive changes only the
\* buffer of the area it addresses: it writes no guest memory, adds no page
\* record and leaves every other area unchanged; an area's bytes reach
\* guest memory only through a ParameterInsert, so a load of areas that
\* are declared and filled but never inserted writes no guest memory and
\* imports no page.
C22_FillTouchesOnlyItsArea ==
    /\ []OnlyInsertsReachMemory
    /\ [][FillStepFrame]_vars

\* C22 witness: a load that declared an area and filled it twice, without
\* inserting it, has succeeded with no page written and none imported.
C22_Witness ==
    /\ pc = "ok"
    /\ Len(stream) = 3
    /\ stream[1].kind = "ParameterArea"
    /\ stream[2].kind = "VpCount"
    /\ stream[3].kind = "CommandLine"
    /\ parameter_areas[stream[1].parameter_area_index].state = "Allocated"
    /\ Len(parameter_areas[stream[1].parameter_area_index].data) >= 4
    /\ PositionsOf("import_pages") = {}
    /\ PositionsOf("import_isolated_pages") = {}

\* The cmdline argument holds a NUL byte.
CmdlineHasNul == \E i \in 1..Len(cmdline) : cmdline[i] = 0

\* The host-data argument is given and is not 64 hex digits.
HostDataNotHex ==
    /\ host_data.some
    /\ \/ Len(host_data.str) # 64
       \/ \E i \in 1..Len(host_data.str) :
             host_data.str[i] \notin
                 {"0", "1", "2", "3", "4", "5", "6", "7", "8", "9",
                  "a", "b", "c", "d", "e", "f", "A", "B", "C", "D", "E", "F"}

\* No directive has been interpreted and nothing has been done: no
\* collaborator call (no guest-memory write, no hypervisor call), no page
\* record, no parameter area, the output record at its default.
NothingDone ==
    /\ next_header = 0
    /\ stream = <<>>
    /\ calls = <<>>
    /\ gpas = <<>>
    /\ gpas_grouped = <<>>
    /\ \A i \in DOMAIN parameter_areas : parameter_areas[i].state = "Absent"
    /\ loaded_info.gpas = <<>> /\ loaded_info.snp_id_block = 0

\* C23: once load_igvm has looked at its arguments, a command line with a
\* NUL byte has made it return InvalidCommandLine, and otherwise host data
\* that is not valid hex for 32 bytes has made it return
\* FailedToDecodeHostData; in both cases before any directive was
\* interpreted, with no guest-memory write, no page record and no
\* hypervisor call, whatever the image holds.
C23_EarlyValidation ==
    pc # "start" =>
        /\ CmdlineHasNul =>
              pc = "err" /\ result = "InvalidCommandLine" /\ NothingDone
        /\ (~CmdlineHasNul /\ HostDataNotHex) =>
              pc = "err" /\ result = "FailedToDecodeHostData" /\ NothingDone

\* C23 witness: host data of 64 characters, one of them no hex digit, has
\* been refused for a command line without a NUL byte.
C23_Witness ==
    /\ pc = "err"
    /\ result = "FailedToDecodeHostData"
    /\ Len(host_data.str) = 64
    /\ ~CmdlineHasNul
    /\ NothingDone

====
